---- MODULE Spec2Model ----
(***************************************************************************)
(* A model of cli_music_player.py: the batch acquisition pipeline          *)
(* (MusicPlayer.batch_add_songs with its download threads and the          *)
(* MusicDownloader.fix pass), the search command (MusicDownloader.save)    *)
(* and the playback engine (the command loop and the event thread of       *)
(* CLI.start, both acting on one MusicPlayer).                             *)
(*                                                                         *)
(* File names and titles are sequences of one-character strings, so that   *)
(* the slicing file[:-4], the test endswith('.mp3') and the regular        *)
(* expression of fix are computed as the code computes them.               *)
(***************************************************************************)
EXTENDS Integers, Sequences, FiniteSets, TLC

(***************************************************************************)
(* Bounds of the model.                                                    *)
(***************************************************************************)
\* The width of the semaphore of batch_add_songs.  The source constructs
\* threading.Semaphore(10) (line 72); the model scales the width down so that
\* batches larger than the width are explored exhaustively.
K == 2
\* The number of entries of a batch file, and the number of distinct queries.
MaxBatch == 3
\* The number of track-finished events that may be waiting in the event queue.
MaxEvents == 1
\* The number of tracks in the songs folder when the program starts.
MaxTracks == 2

Queries == 1 .. MaxBatch
Jobs == 1 .. MaxBatch
NoQuery == 0

(***************************************************************************)
(* Text.                                                                   *)
(***************************************************************************)
Ext == <<".", "m", "p", "3">>

\* The characters the pattern [^a-zA-Z0-9] of fix leaves in place.
AlnumChars ==
    { "a", "b", "c", "d", "e", "f", "g", "h", "i", "j", "k", "l", "m",
      "n", "o", "p", "q", "r", "s", "t", "u", "v", "w", "x", "y", "z",
      "A", "B", "C", "D", "E", "F", "G", "H", "I", "J", "K", "L", "M",
      "N", "O", "P", "Q", "R", "S", "T", "U", "V", "W", "X", "Y", "Z",
      "0", "1", "2", "3", "4", "5", "6", "7", "8", "9" }

IsAlnum(c) == c \in AlnumChars

NotSpace(c) == c # " "

\* file[:-4]
DropExt(f) == SubSeq(f, 1, Len(f) - 4)

\* file.endswith('.mp3')
EndsWithMp3(f) == Len(f) >= 4 /\ SubSeq(f, Len(f) - 3, Len(f)) = Ext

\* pattern.sub('', downloaded_file[:-4]).replace(" ", "")
NewTitle(f) == SelectSeq(SelectSeq(DropExt(f), IsAlnum), NotSpace)

\* f"{title}.mp3"
Mp3(title) == title \o Ext

Range(s) == { s[i] : i \in 1 .. Len(s) }

\* The orders in which a listing can enumerate the set S.
Orderings(S) ==
    { s \in [1 .. Cardinality(S) -> S] : \A i, j \in 1 .. Cardinality(S) : s[i] = s[j] => i = j }

\* The names the fetcher leaves in the staging folder.  The name is built by
\* the download library from the remote title (outtmpl, line 190), which puts
\* the title between quotes; the title itself is remote text, not chosen by
\* the program: a title, a title that is all punctuation, and a file whose
\* name is already bare.
RawNames ==
    << Mp3(<<"'", "a", "'">>), Mp3(<<"a">>), Mp3(<<"'", " ", "'">>) >>

\* The file ydl.download writes for the first search result of query q.
StagedName(q) == RawNames[((q - 1) % Len(RawNames)) + 1]

(***************************************************************************)
(* State.                                                                  *)
(***************************************************************************)
VARIABLES
    songs_folder,       \* the songs directory: its file names, in listing order
    temp_folder,        \* the temp (staging) directory: a set of file names
    is_playing,         \* MusicPlayer.is_playing
    is_shuffling,       \* MusicPlayer.is_shuffling
    current_song_index, \* MusicPlayer.current_song_index
    songs,              \* MusicPlayer.songs: a sequence of titles
    loaded,             \* the title pygame.mixer.music holds, or NoTrack
    music,              \* the mixer: "stopped", "playing" or "paused"
    end_events,         \* USEREVENT+1 events waiting in pygame's queue
    pc,                 \* where the command loop ("cmd") and the event thread ("evt") are
    new_index,          \* per thread: the index play_song has computed and not stored yet,
                        \* or the parameter index of play_specific_song
    selected_song,      \* per thread: the local selected_song of play_selected_song
    output,             \* the message the last step printed, or NoOutput
    songs_list,         \* batch_add_songs: the deduplicated list
    n_entries,          \* batch_add_songs: the length of the list before set()
    song,               \* batch_add_songs: the loop variable the lambdas close over
    semaphore,          \* batch_add_songs: the semaphore's counter
    next_i,             \* batch_add_songs: the position of the dispatch loop
    jpc,                \* per download thread: where it is
    job_song,           \* per download thread: the query its lambda passed on
    outcome,            \* per download thread: "Pending", "Succeeded", "Failed" (download
                        \* returned False) or "Raised" (an exception ended the thread)
    fix_left,           \* batch_add_songs: iterations left of the loop of line 84
    lib_before,         \* history: the number of tracks when the batch started
    staged_at_join,     \* history: os.listdir(temp) as line 84 read it
    processed,          \* history: the staged files fix has taken since the join
    op,                 \* per thread: the navigation call it is in: "next", "previous",
                        \* "select", or "none"
    shuffled_from       \* history: the list the last step gave to random.shuffle, or <<>>
                        \* when the last step did not turn shuffle on

fsvars == <<songs_folder, temp_folder>>
playervars == <<is_playing, is_shuffling, current_song_index, songs, loaded, music,
                end_events, new_index, selected_song, op>>
batchvars == <<songs_list, n_entries, song, semaphore, next_i, jpc, job_song, outcome,
               fix_left, lib_before, staged_at_join, processed>>
vars == <<fsvars, playervars, batchvars, pc, output, shuffled_from>>

Threads == {"cmd", "evt"}
NoTrack == <<"-">>
\* A step that prints nothing.
NoOutput == ""

\* A step that prints message (or nothing) and does not shuffle the list.
Prints(message) ==
    /\ output' = message
    /\ shuffled_from' = <<>>

(***************************************************************************)
(* The directories.                                                        *)
(***************************************************************************)
\* get_song_list: [file[:-4] for file in os.listdir(songs_folder) if file.endswith('.mp3')]
get_song_list ==
    LET mp3s == SelectSeq(songs_folder, EndsWithMp3)
    IN  [i \in 1 .. Len(mp3s) |-> DropExt(mp3s[i])]

\* The directory dir with an entry named f put at position p of its listing.
\* Writing over an existing entry replaces the file and keeps one entry.
PutFile(dir, f, p) ==
    IF f \in Range(dir) THEN dir
    ELSE SubSeq(dir, 1, p - 1) \o <<f>> \o SubSeq(dir, p, Len(dir))

\* os.rename(old_file_name, new_file_name) inside the temp folder.
RenameInTemp(dir, f) == (dir \ {f}) \cup {Mp3(NewTitle(f))}

(***************************************************************************)
(* Construction: MusicPlayer.__init__, MusicDownloader.__init__, and the   *)
(* start of CLI.start.  The two folders are created when missing.          *)
(***************************************************************************)
InitPlayer ==
    /\ is_playing = FALSE
    /\ is_shuffling = FALSE
    /\ current_song_index = 0
    /\ songs = <<>>
    /\ loaded = NoTrack
    /\ music = "stopped"
    /\ end_events = 0
    /\ pc = [t \in Threads |-> "idle"]
    /\ new_index = [t \in Threads |-> 0]
    /\ selected_song = [t \in Threads |-> NoTrack]
    /\ output = "Type 'help' for available commands."
    /\ shuffled_from = <<>>
    /\ op = [t \in Threads |-> "none"]

InitBatch ==
    /\ songs_list = <<>>
    /\ n_entries = 0
    /\ song = NoQuery
    /\ semaphore = 0
    /\ next_i = 1
    /\ jpc = [t \in Jobs |-> "none"]
    /\ job_song = [t \in Jobs |-> NoQuery]
    /\ outcome = [t \in Jobs |-> "Pending"]
    /\ fix_left = 0
    /\ lib_before = 0
    /\ staged_at_join = {}
    /\ processed = {}

Init ==
    /\ songs_folder = <<>>
    /\ temp_folder = {}
    /\ InitPlayer
    /\ InitBatch

(***************************************************************************)
(* batch_add_songs, on the command loop.                                   *)
(***************************************************************************)
\* Lines 67-75 and 87-90: the file is read, the first bracketed list is split
\* and deduplicated.
BatchOpen ==
    /\ pc["cmd"] = "idle"
    /\ \/ /\ Prints("File not found.")
          /\ UNCHANGED <<pc, batchvars>>
       \/ /\ Prints("No songs found in the text file.")
          /\ UNCHANGED <<pc, batchvars>>
       \/ \E n \in 1 .. MaxBatch : \E content \in [1 .. n -> Queries] :
          \E order \in Orderings(Range(content)) :
            /\ songs_list' = order
            /\ n_entries' = n
            /\ semaphore' = K
            /\ next_i' = 1
            /\ jpc' = [t \in Jobs |-> "none"]
            /\ job_song' = [t \in Jobs |-> NoQuery]
            /\ outcome' = [t \in Jobs |-> "Pending"]
            /\ lib_before' = Len(songs_folder)
            /\ staged_at_join' = {}
            /\ processed' = {}
            /\ pc' = [pc EXCEPT !["cmd"] = "dispatch"]
            /\ UNCHANGED <<song, fix_left>>
            /\ Prints(NoOutput)
    /\ UNCHANGED <<fsvars, playervars>>

\* Lines 76-81: one turn of the dispatch loop.  The loop variable is bound to
\* the next query, a thread is created around a lambda that refers to the
\* variable, and the thread is started.
Dispatch ==
    /\ pc["cmd"] = "dispatch"
    /\ next_i <= Len(songs_list)
    /\ song' = songs_list[next_i]
    /\ jpc' = [jpc EXCEPT ![next_i] = "started"]
    /\ next_i' = next_i + 1
    /\ Prints("Creating download thread")
    /\ pc' = [pc EXCEPT !["cmd"] = IF next_i = Len(songs_list) THEN "join" ELSE "dispatch"]
    /\ UNCHANGED <<fsvars, playervars, songs_list, n_entries, semaphore, job_song, outcome,
                   fix_left, lib_before, staged_at_join, processed>>

\* A join that returns as soon as the thread has been started.
JoinedOnceStarted(t) == jpc[t] # "none"

\* thread.join() returns when the thread has ended.
Joined(t) == jpc[t] = "done"

\* Lines 82-84: every thread is joined, then the temp folder is listed.
Join ==
    /\ pc["cmd"] = "join"
    /\ \A t \in 1 .. Len(songs_list) : Joined(t)
    /\ staged_at_join' = temp_folder
    /\ fix_left' = Cardinality(temp_folder)
    /\ pc' = [pc EXCEPT !["cmd"] = IF temp_folder = {} THEN "returned" ELSE "fix"]
    /\ UNCHANGED <<fsvars, playervars, songs_list, n_entries, song, semaphore, next_i, jpc,
                   job_song, outcome, lib_before, processed>>
    /\ Prints(NoOutput)

\* The locals of batch_add_songs as they are outside a call.
NoBatch ==
    /\ songs_list' = <<>>
    /\ n_entries' = 0
    /\ song' = NoQuery
    /\ semaphore' = 0
    /\ next_i' = 1
    /\ jpc' = [t \in Jobs |-> "none"]
    /\ job_song' = [t \in Jobs |-> NoQuery]
    /\ outcome' = [t \in Jobs |-> "Pending"]
    /\ fix_left' = 0
    /\ lib_before' = 0
    /\ staged_at_join' = {}
    /\ processed' = {}

\* Line 85 with fix (lines 218-230): one turn of the loop over the listing
\* taken at line 84.  fix takes os.listdir(temp)[0], whichever file that is;
\* on an empty folder the subscript raises IndexError, which handle_command
\* catches and prints (lines 291-292).
FixStep ==
    /\ pc["cmd"] = "fix"
    /\ \/ /\ temp_folder = {}
          /\ Prints("Error: list index out of range")
          /\ pc' = [pc EXCEPT !["cmd"] = "idle"]
          /\ NoBatch
          /\ UNCHANGED fsvars
       \/ \E f \in temp_folder : \E p \in 1 .. Len(songs_folder) + 1 :
            /\ temp_folder' = RenameInTemp(temp_folder, f) \ {Mp3(NewTitle(f))}
            /\ songs_folder' = PutFile(songs_folder, Mp3(NewTitle(f)), p)
            /\ processed' = processed \cup {f}
            /\ fix_left' = fix_left - 1
            /\ Prints("Downloaded")
            /\ pc' = [pc EXCEPT !["cmd"] = IF fix_left = 1 THEN "returned" ELSE "fix"]
            /\ UNCHANGED <<songs_list, n_entries, song, semaphore, next_i, jpc,
                           job_song, outcome, lib_before, staged_at_join>>
    /\ UNCHANGED playervars

\* batch_add_songs returns to handle_command, and the loop of CLI.start reads
\* the next command.
BatchReturn ==
    /\ pc["cmd"] = "returned"
    /\ pc' = [pc EXCEPT !["cmd"] = "idle"]
    /\ NoBatch
    /\ UNCHANGED <<fsvars, playervars>>
    /\ Prints(NoOutput)

(***************************************************************************)
(* A download thread: the lambda of line 79, save_with_semaphore and       *)
(* save_batch.                                                             *)
(***************************************************************************)
\* A semaphore whose acquire never blocks.
SlotFreeAlways(n) == TRUE

\* Semaphore.acquire() blocks while the counter is zero.
SlotFree(n) == n > 0

\* Semaphore.release(), as the with statement calls it when save_batch returns.
Released(n) == n + 1

\* A with block that keeps the slot when an exception leaves it.
KeptOnException(n) == n

\* Semaphore.release(), as the with statement calls it when an exception
\* leaves save_batch.
ReleasedOnException(n) == n + 1

\* The thread runs its target: the lambda reads the variable song of
\* batch_add_songs as it is now and calls save_with_semaphore with it.
JobBind(t) ==
    /\ jpc[t] = "started"
    /\ job_song' = [job_song EXCEPT ![t] = song]
    /\ jpc' = [jpc EXCEPT ![t] = "acquire"]
    /\ UNCHANGED <<fsvars, playervars, songs_list, n_entries, song, semaphore, next_i, outcome,
                   fix_left, lib_before, staged_at_join, processed, pc>>
    /\ Prints(NoOutput)

\* with semaphore: (entry)
JobAcquire(t) ==
    /\ jpc[t] = "acquire"
    /\ SlotFree(semaphore)
    /\ semaphore' = semaphore - 1
    /\ jpc' = [jpc EXCEPT ![t] = "get_url"]
    /\ UNCHANGED <<fsvars, playervars, songs_list, n_entries, song, next_i, job_song, outcome,
                   fix_left, lib_before, staged_at_join, processed, pc>>
    /\ Prints(NoOutput)

\* save_batch, first half: get_url (lines 206-216).  A locator is found; or no
\* script holds a videoId, get_url returns None, and download(None) catches
\* the exception of extract_info and returns False; or the request raises
\* and the exception leaves save_batch.  Leaving the with block, by return or
\* by exception, releases the semaphore, and the thread ends.
JobGetUrl(t) ==
    /\ jpc[t] = "get_url"
    /\ \/ /\ jpc' = [jpc EXCEPT ![t] = "download"]
          /\ UNCHANGED <<outcome, semaphore>>
       \/ /\ jpc' = [jpc EXCEPT ![t] = "done"]
          /\ outcome' = [outcome EXCEPT ![t] = "Failed"]
          /\ semaphore' = Released(semaphore)
       \/ /\ jpc' = [jpc EXCEPT ![t] = "done"]
          /\ outcome' = [outcome EXCEPT ![t] = "Raised"]
          /\ semaphore' = ReleasedOnException(semaphore)
    /\ UNCHANGED <<fsvars, playervars, songs_list, n_entries, song, next_i, job_song,
                   fix_left, lib_before, staged_at_join, processed, pc>>
    /\ Prints(IF outcome'[t] = "Failed" THEN "Error: download" ELSE NoOutput)

\* save_batch, second half: download (lines 186-204) with a locator.  The file
\* is staged and download returns True, or an exception is caught and it
\* prints it and returns False; then the with block is left.
JobDownload(t) ==
    /\ jpc[t] = "download"
    /\ \/ /\ temp_folder' = temp_folder \cup {StagedName(job_song[t])}
          /\ outcome' = [outcome EXCEPT ![t] = "Succeeded"]
       \/ /\ outcome' = [outcome EXCEPT ![t] = "Failed"]
          /\ UNCHANGED temp_folder
    /\ jpc' = [jpc EXCEPT ![t] = "done"]
    /\ semaphore' = Released(semaphore)
    /\ UNCHANGED <<songs_folder, playervars, songs_list, n_entries, song, next_i,
                   job_song, fix_left, lib_before, staged_at_join, processed, pc>>
    /\ Prints(IF outcome'[t] = "Failed" THEN "Error: download" ELSE NoOutput)

JobStep(t) ==
    \/ JobBind(t)
    \/ JobAcquire(t)
    \/ JobGetUrl(t)
    \/ JobDownload(t)

BatchMain ==
    \/ BatchOpen
    \/ Dispatch
    \/ Join
    \/ FixStep
    \/ BatchReturn

NextBatch ==
    \/ BatchMain
    \/ \E t \in Jobs : JobStep(t)

SpecBatch == Init /\ [][NextBatch]_vars


\* The scheduler runs every thread that can take a step, and every call of
\* the resolver and of the fetcher returns or raises.
FairSpecBatch ==
    /\ SpecBatch
    /\ WF_vars(BatchMain)
    /\ \A t \in Jobs : WF_vars(JobStep(t))

(***************************************************************************)
(* The playback engine.  The command loop of CLI.start ("cmd") and the     *)
(* thread running handle_events ("evt") call the same MusicPlayer with no  *)
(* lock; a thread switch can fall between any two steps below.             *)
(***************************************************************************)
Letters == <<"a", "b", "c", "d", "e">>

\* A songs folder that holds tracks when the program starts.
Library == [i \in 1 .. MaxTracks |-> Mp3(<<Letters[i]>>)]

InitWithLibrary ==
    /\ songs_folder = Library
    /\ temp_folder = {}
    /\ InitPlayer
    /\ InitBatch

\* The locals of a navigation call as they are outside a call.
Return(t) ==
    /\ pc' = [pc EXCEPT ![t] = "idle"]
    /\ op' = [op EXCEPT ![t] = "none"]
    /\ new_index' = [new_index EXCEPT ![t] = 0]
    /\ selected_song' = [selected_song EXCEPT ![t] = NoTrack]

\* An exception nothing catches: it ends the thread.  In the command loop it
\* leaves CLI.start; in the event thread it leaves handle_events.
Crash(t) ==
    /\ pc' = [pc EXCEPT ![t] = "crashed"]
    /\ op' = [op EXCEPT ![t] = "none"]
    /\ new_index' = [new_index EXCEPT ![t] = 0]
    /\ selected_song' = [selected_song EXCEPT ![t] = NoTrack]

\* pause (lines 103-108).
Pause ==
    /\ pc["cmd"] = "idle"
    /\ IF is_playing
       THEN /\ music' = IF music = "playing" THEN "paused" ELSE music
            /\ is_playing' = FALSE
            /\ Prints(NoOutput)
       ELSE /\ Prints("Error: No song is currently playing.")
            /\ UNCHANGED <<music, is_playing>>
    /\ UNCHANGED <<fsvars, batchvars, pc, is_shuffling, current_song_index, songs, loaded,
                   end_events, new_index, selected_song, op>>

\* A play that does not test whether a song is playing.
MayPlayAlways(playing) == TRUE

\* not self.is_playing (line 111)
MayPlay(playing) == ~playing

\* play (lines 110-115).
Play ==
    /\ pc["cmd"] = "idle"
    /\ IF MayPlay(is_playing)
       THEN /\ music' = IF music = "paused" THEN "playing" ELSE music
            /\ is_playing' = TRUE
            /\ Prints(NoOutput)
       ELSE /\ Prints("Error: Song is currently playing.")
            /\ UNCHANGED <<music, is_playing>>
    /\ UNCHANGED <<fsvars, batchvars, pc, is_shuffling, current_song_index, songs, loaded,
                   end_events, new_index, selected_song, op>>

\* The arguments of the select command: int(command.split()[1]) - 1.
SelectArgs == -1 .. MaxTracks

\* play_specific_song, line 118: the list is refreshed from the folder.
SelectRefresh ==
    /\ pc["cmd"] = "idle"
    /\ \E index \in SelectArgs : new_index' = [new_index EXCEPT !["cmd"] = index]
    /\ songs' = get_song_list
    /\ op' = [op EXCEPT !["cmd"] = "select"]
    /\ pc' = [pc EXCEPT !["cmd"] = "select"]
    /\ UNCHANGED <<fsvars, batchvars, is_playing, is_shuffling, current_song_index, loaded,
                   music, end_events, selected_song>>
    /\ Prints(NoOutput)

\* A play_specific_song without the test of line 119.
NoSongsNever(list) == FALSE

\* not self.songs (line 119)
NoSongs(list) == list = <<>>

\* play_specific_song, lines 119-127.
SelectCheck ==
    /\ pc["cmd"] = "select"
    /\ IF NoSongs(songs)
       THEN /\ Prints("Error: No songs available.")
            /\ Return("cmd")
            /\ UNCHANGED current_song_index
       ELSE IF 0 <= new_index["cmd"] /\ new_index["cmd"] < Len(songs)
       THEN /\ current_song_index' = new_index["cmd"]
            /\ pc' = [pc EXCEPT !["cmd"] = "play_selected_song"]
            /\ UNCHANGED <<op, new_index, selected_song>>
            /\ Prints(NoOutput)
       ELSE /\ Prints("Error: Invalid song index.")
            /\ Return("cmd")
            /\ UNCHANGED current_song_index
    /\ UNCHANGED <<fsvars, batchvars, is_playing, is_shuffling, songs, loaded, music, end_events>>

\* toggle_shuffle (lines 129-136): random.shuffle permutes the list in place;
\* turning shuffle off refreshes the list from the folder.
ToggleShuffle ==
    /\ pc["cmd"] = "idle"
    /\ is_shuffling' = ~is_shuffling
    /\ IF ~is_shuffling
       THEN /\ \E order \in Orderings(1 .. Len(songs)) :
                 songs' = [i \in 1 .. Len(songs) |-> songs[order[i]]]
            /\ output' = "Shuffle turned on."
            /\ shuffled_from' = songs
       ELSE /\ songs' = get_song_list
            /\ Prints("Shuffle turned off.")
    /\ UNCHANGED <<fsvars, batchvars, pc, is_playing, current_song_index, loaded, music,
                   end_events, new_index, selected_song, op>>

\* A step that stops at the ends of the list instead of wrapping around.
SteppedToTheEnd(i, direction, n) ==
    IF direction = "next" THEN (IF i + 1 < n THEN i + 1 ELSE i) ELSE (IF i > 0 THEN i - 1 ELSE i)

\* The index play_song moves to without shuffle (lines 143-146); Python's %
\* is never negative for a positive modulus.
Stepped(i, direction, n) ==
    IF direction = "next" THEN (i + 1) % n ELSE (i - 1) % n

\* play_song, lines 139-146 up to the store: the list is tested and the new
\* index is computed, by random.randint under shuffle.
PlaySongCompute(t, direction) ==
    /\ IF songs = <<>>
       THEN /\ Prints("No songs available.")
            /\ UNCHANGED <<pc, op, new_index>>
       ELSE /\ IF is_shuffling
               THEN \E r \in 0 .. Len(songs) - 1 : new_index' = [new_index EXCEPT ![t] = r]
               ELSE new_index' = [new_index EXCEPT
                        ![t] = Stepped(current_song_index, direction, Len(songs))]
            /\ op' = [op EXCEPT ![t] = direction]
            /\ pc' = [pc EXCEPT ![t] = "store"]
            /\ Prints(NoOutput)
    /\ UNCHANGED <<fsvars, batchvars, is_playing, is_shuffling, current_song_index, songs,
                   loaded, music, selected_song>>

\* The commands next and previous (lines 268-269).
Navigate ==
    /\ pc["cmd"] = "idle"
    /\ \E direction \in {"next", "previous"} : PlaySongCompute("cmd", direction)
    /\ UNCHANGED end_events

\* An event loop that steps backwards at the end of a track.
EventDirectionPrevious == "previous"

\* The argument handle_events passes to play_song (line 178).
EventDirection == "next"

\* handle_events (lines 174-179): an end-of-track event taken from the queue
\* calls play_song("next").
HandleEvent ==
    /\ pc["evt"] = "idle"
    /\ end_events > 0
    /\ end_events' = end_events - 1
    /\ PlaySongCompute("evt", EventDirection)

\* play_song: the store into self.current_song_index (lines 141, 144, 146).
PlaySongStore(t) ==
    /\ pc[t] = "store"
    /\ current_song_index' = new_index[t]
    /\ pc' = [pc EXCEPT ![t] = "play_selected_song"]
    /\ UNCHANGED <<fsvars, batchvars, is_playing, is_shuffling, songs, loaded, music,
                   end_events, new_index, selected_song, op>>
    /\ Prints(NoOutput)

\* play_selected_song, lines 155-157 and 164-165.  A subscript out of range
\* raises IndexError: handle_command catches it for select (line 278), and
\* nothing catches it for next, previous and the event thread.
PlaySelectedSong(t) ==
    /\ pc[t] = "play_selected_song"
    /\ IF songs = <<>>
       THEN /\ Prints("Error: No songs available to play.")
            /\ Return(t)
       ELSE IF current_song_index < Len(songs)
       THEN /\ selected_song' = [selected_song EXCEPT ![t] = songs[current_song_index + 1]]
            /\ pc' = [pc EXCEPT ![t] = "load"]
            /\ UNCHANGED <<op, new_index>>
            /\ Prints(NoOutput)
       ELSE IF op[t] = "select"
       THEN /\ Prints("Invalid command.")
            /\ Return(t)
       ELSE /\ Crash(t)
            /\ Prints(NoOutput)
    /\ UNCHANGED <<fsvars, batchvars, is_playing, is_shuffling, current_song_index, songs,
                   loaded, music, end_events>>

\* pygame.mixer.music.load opens the file of the path.
CanLoad(title) == Mp3(title) \in Range(songs_folder)

\* is_playing after a load that raised pygame.error (lines 162-163).
AfterLoadError(playing) == playing

\* play_selected_song, lines 158-163: load, play and is_playing = True, or
\* pygame.error is caught and printed.
LoadAndPlay(t) ==
    /\ pc[t] = "load"
    /\ IF CanLoad(selected_song[t])
       THEN /\ loaded' = selected_song[t]
            /\ music' = "playing"
            /\ is_playing' = TRUE
            /\ Prints(NoOutput)
       ELSE /\ Prints("Error loading or playing the song")
            /\ is_playing' = AfterLoadError(is_playing)
            /\ UNCHANGED <<loaded, music>>
    /\ Return(t)
    /\ UNCHANGED <<fsvars, batchvars, is_shuffling, current_song_index, songs, end_events>>

\* current_song (lines 315-321); the subscript is not guarded.
Current ==
    /\ pc["cmd"] = "idle"
    /\ IF songs = <<>>
       THEN /\ Prints("No song is currently playing.")
            /\ UNCHANGED <<pc, op, new_index, selected_song>>
       ELSE IF current_song_index < Len(songs)
       THEN /\ Prints("Now Playing")
            /\ UNCHANGED <<pc, op, new_index, selected_song>>
       ELSE /\ Crash("cmd")
            /\ Prints(NoOutput)
    /\ UNCHANGED <<fsvars, batchvars, is_playing, is_shuffling, current_song_index, songs,
                   loaded, music, end_events>>

\* The mixer reaches the end of the track and queues the end event set at
\* line 63.
TrackFinished ==
    /\ music = "playing"
    /\ end_events < MaxEvents
    /\ music' = "stopped"
    /\ end_events' = end_events + 1
    /\ UNCHANGED <<fsvars, batchvars, pc, is_playing, is_shuffling, current_song_index,
                   songs, loaded, new_index, selected_song, op>>
    /\ Prints(NoOutput)

\* A file of the songs folder is removed outside the program; the folder is
\* read afresh by every os.listdir (line 168) and every load (line 159).
FileRemoved ==
    /\ \E i \in 1 .. Len(songs_folder) :
         songs_folder' = SubSeq(songs_folder, 1, i - 1) \o SubSeq(songs_folder, i + 1, Len(songs_folder))
    /\ UNCHANGED <<temp_folder, batchvars, playervars, pc>>
    /\ Prints(NoOutput)

NextPlayer ==
    \/ Pause
    \/ Play
    \/ SelectRefresh
    \/ SelectCheck
    \/ ToggleShuffle
    \/ Navigate
    \/ Current
    \/ HandleEvent
    \/ \E t \in Threads : PlaySongStore(t)
    \/ \E t \in Threads : PlaySelectedSong(t)
    \/ \E t \in Threads : LoadAndPlay(t)
    \/ TrackFinished
    \/ FileRemoved

SpecPlayer == InitWithLibrary /\ [][NextPlayer]_vars

(***************************************************************************)
(* The search command (CLI.start, lines 258-260): MusicDownloader().save,  *)
(* called by the command loop outside any try statement.                   *)
(***************************************************************************)
\* save, lines 233-234: get_url, then download.  The request of get_url
\* raises, and the exception leaves save and CLI.start; or no locator is
\* found or the fetch fails, download prints the error and returns False, and
\* save goes on; or the file is staged.
SearchSave ==
    /\ pc["cmd"] = "idle"
    /\ \/ /\ Crash("cmd")
          /\ Prints(NoOutput)
          /\ UNCHANGED temp_folder
       \/ /\ pc' = [pc EXCEPT !["cmd"] = "search_fix"]
          /\ Prints("Error: download")
          /\ UNCHANGED <<temp_folder, op, new_index, selected_song>>
       \/ \E query \in Queries :
            /\ temp_folder' = temp_folder \cup {StagedName(query)}
            /\ pc' = [pc EXCEPT !["cmd"] = "search_fix"]
            /\ Prints(NoOutput)
            /\ UNCHANGED <<op, new_index, selected_song>>
    /\ UNCHANGED <<songs_folder, batchvars, is_playing, is_shuffling, current_song_index,
                   songs, loaded, music, end_events>>

\* save, line 235: fix (lines 218-230).  On an empty temp folder the subscript
\* of line 219 raises IndexError, which nothing catches.  Otherwise the first
\* file of the listing is renamed and moved; the list fix refreshes is the
\* one of the MusicPlayer it constructs at line 227, not the list of the
\* player the commands act on.
SearchFix ==
    /\ pc["cmd"] = "search_fix"
    /\ \/ /\ temp_folder = {}
          /\ Crash("cmd")
          /\ Prints(NoOutput)
          /\ UNCHANGED fsvars
       \/ \E f \in temp_folder : \E p \in 1 .. Len(songs_folder) + 1 :
            /\ temp_folder' = RenameInTemp(temp_folder, f) \ {Mp3(NewTitle(f))}
            /\ songs_folder' = PutFile(songs_folder, Mp3(NewTitle(f)), p)
            /\ Prints("Downloaded")
            /\ pc' = [pc EXCEPT !["cmd"] = "idle"]
            /\ UNCHANGED <<op, new_index, selected_song>>
    /\ UNCHANGED <<batchvars, is_playing, is_shuffling, current_song_index, songs, loaded,
                   music, end_events>>

NextSearch ==
    \/ SearchSave
    \/ SearchFix
    \/ NextPlayer

\* The program started on empty folders, with the search command and the
\* playback commands.
SpecSearch == Init /\ [][NextSearch]_vars

Next == NextBatch \/ NextSearch

Spec == Init /\ [][Next]_vars

(***************************************************************************)
(* The acquisition pipeline's properties.                                  *)
(***************************************************************************)
\* The download threads inside save_batch.
InFlight == { t \in Jobs : jpc[t] \in {"get_url", "download"} }

Dispatched == 1 .. Len(songs_list)

\* C1: at no time are more than K download threads inside save_batch (resolve
\* and fetch); the threads in excess wait for the semaphore.
C1_AtMostKInFlight == Cardinality(InFlight) <= K

\* C1, its case: K threads are inside save_batch and another one waits.
C1_Witness ==
    /\ Cardinality(InFlight) = K
    /\ \E t \in Jobs : jpc[t] = "acquire"

\* C2: when the batch's threads have ended, every distinct query of the batch
\* has been resolved and fetched by exactly one thread: none twice, none skipped.
C2_OneJobPerQuery ==
    pc["cmd"] \in {"fix", "returned"} =>
        \A q \in Range(songs_list) :
            Cardinality({ t \in Dispatched : job_song[t] = q }) = 1

\* C3: while the promotion pass runs, and when the batch has returned, every
\* dispatched thread has ended: none is pending or inside save_batch.
C3_JoinBeforePromote ==
    pc["cmd"] \in {"fix", "returned"} =>
        /\ next_i = Len(songs_list) + 1
        /\ \A t \in Dispatched : jpc[t] = "done" /\ outcome[t] # "Pending"

\* C3, its case: the promotion pass runs after a batch of several threads, of
\* which one failed and one staged a file.
C3_Witness ==
    /\ pc["cmd"] = "fix"
    /\ \E t, u \in Dispatched : outcome[t] = "Succeeded" /\ outcome[u] \in {"Failed", "Raised"}

\* C4: under fair scheduling every started thread ends, whatever number of
\* its siblings fail, and the join of the batch completes.
C4_FailuresDoNotBlock ==
    /\ \A t \in Jobs : (jpc[t] \notin {"none", "done"}) ~> (jpc[t] = "done")
    /\ (pc["cmd"] = "join") ~> (pc["cmd"] \in {"fix", "returned"})

\* C4, its case: at least K threads of a batch failed, one of them by an
\* exception, a thread that had to wait for a slot staged its file, and the
\* join has completed.
C4_Witness ==
    /\ pc["cmd"] \in {"fix", "returned"}
    /\ Cardinality({ t \in Dispatched : outcome[t] \in {"Failed", "Raised"} }) >= K
    /\ \E t \in Dispatched : outcome[t] = "Raised"
    /\ \E t \in Dispatched : outcome[t] = "Succeeded"

\* C5: the promotion pass never calls fix on an empty staging folder, and when
\* it has finished the staging folder is empty and every file that was staged
\* at the join has been taken by fix.
C5_EachStagedFileOnce ==
    /\ output # "Error: list index out of range"
    /\ pc["cmd"] = "returned" => temp_folder = {} /\ processed = staged_at_join

\* C6: when the batch has returned, the library holds one more track for
\* every file that was staged.
C6_EveryStagedFileIsATrack ==
    pc["cmd"] = "returned" =>
        Len(get_song_list) = lib_before + Cardinality(staged_at_join)

\* C7: every title fix has promoted into the library is non-empty and made of
\* the characters a-z, A-Z and 0-9 alone.
C7_PromotedTitleIsClean ==
    \A i \in 1 .. Len(get_song_list) :
        /\ get_song_list[i] # <<>>
        /\ \A j \in 1 .. Len(get_song_list[i]) :
              IsAlnum(get_song_list[i][j]) /\ get_song_list[i][j] # " "

(***************************************************************************)
(* The playback engine's properties.                                       *)
(***************************************************************************)
\* C8: a navigation call of one thread is never interleaved with an access of
\* the other: the index a thread is about to store is one step from the index
\* as it is now (no update is lost), and the title a thread is about to load
\* is the one at the current index of the list.
C8_NavigationIsSerialized ==
    \A t \in Threads :
        /\ (pc[t] = "store" /\ ~is_shuffling /\ op[t] \in {"next", "previous"}) =>
              /\ songs # <<>>
              /\ new_index[t] = Stepped(current_song_index, op[t], Len(songs))
        /\ pc[t] = "load" =>
              /\ current_song_index < Len(songs)
              /\ selected_song[t] = songs[current_song_index + 1]

\* C9: whenever the list is not empty and no select command is between its
\* refresh and its check of the index, 0 <= current_song_index < len(songs).
C9_IndexInRange ==
    (songs # <<>> /\ pc["cmd"] # "select") =>
        0 <= current_song_index /\ current_song_index < Len(songs)

\* C10: a navigation call whose load fails leaves is_playing false.
C10_LoadErrorStopsPlaying ==
    [][\A t \in Threads :
          (pc[t] = "load" /\ ~CanLoad(selected_song[t]) /\ pc'[t] = "idle") => ~is_playing']_vars

\* C13: without shuffle, on a list of n >= 1 titles and from an index i in
\* 0 .. n-1, play_song("next") computes (i+1) mod n and play_song("previous")
\* computes (i-1+n) mod n; the index computed is the one stored, the title
\* taken is the one at the stored index, and it is the one loaded.
C13_NavigationWraps ==
    [][\A t \in Threads :
          /\ (/\ pc[t] = "idle" /\ pc'[t] = "store" /\ ~is_shuffling
              /\ 0 <= current_song_index /\ current_song_index < Len(songs)) =>
                 /\ op'[t] \in {"next", "previous"}
                 /\ op'[t] = "next" =>
                       new_index'[t] = (current_song_index + 1) % Len(songs)
                 /\ op'[t] = "previous" =>
                       new_index'[t] = (current_song_index - 1 + Len(songs)) % Len(songs)
          /\ (pc[t] = "store" /\ pc'[t] # "store") =>
                 (pc'[t] = "play_selected_song" /\ current_song_index' = new_index[t])
          /\ (pc[t] = "play_selected_song" /\ pc'[t] = "load") =>
                 selected_song'[t] = songs[current_song_index + 1]
          /\ (pc[t] = "load" /\ pc'[t] # "load" /\ CanLoad(selected_song[t])) =>
                 (loaded' = selected_song[t] /\ music' = "playing")]_vars

\* C13, its case: on a list of at least two titles, previous from index 0 has
\* computed the last index.
C13_Witness ==
    \E t \in Threads :
        /\ pc[t] = "store" /\ op[t] = "previous" /\ ~is_shuffling
        /\ Len(songs) >= 2 /\ current_song_index = 0
        /\ new_index[t] = Len(songs) - 1

\* C14: a next or previous command, an end-of-track event and a select
\* command that find the list empty (select after its refresh) print that no
\* songs are available, leave current_song_index and is_playing as they
\* were, load and play nothing, and the calling thread is back at rest.
C14_EmptyPlaylistIsSafe ==
    [][/\ (songs = <<>> /\ (Navigate \/ SelectCheck)) =>
             /\ output' \in {"No songs available.", "Error: No songs available."}
             /\ pc'["cmd"] = "idle"
             /\ UNCHANGED <<current_song_index, is_playing, loaded, music>>
       /\ (songs = <<>> /\ HandleEvent) =>
             /\ output' = "No songs available."
             /\ pc'["evt"] = "idle"
             /\ UNCHANGED <<current_song_index, is_playing, loaded, music>>]_vars

\* C14, its case: a select command has found the list empty after its refresh,
\* in a run that had loaded a track before.
C14_Witness ==
    /\ songs = <<>>
    /\ output = "Error: No songs available."
    /\ loaded # NoTrack

\* C15: a select command whose index is outside the list (after the refresh)
\* prints that the index is invalid and changes nothing: the list it was
\* given on, a list of the titles the folder holds, is in the same order
\* after the call, and current_song_index, is_playing, is_shuffling and the
\* loaded track are the same.
C15_InvalidIndexChangesNothing ==
    [][/\ (/\ SelectRefresh
           /\ songs # <<>> /\ Len(songs) = Len(get_song_list)
           /\ Range(songs) = Range(get_song_list)
           /\ new_index'["cmd"] \notin 0 .. Len(songs') - 1) =>
             songs' = songs
       /\ (SelectCheck /\ songs # <<>> /\ new_index["cmd"] \notin 0 .. Len(songs) - 1) =>
             /\ output' = "Error: Invalid song index."
             /\ pc'["cmd"] = "idle"
             /\ UNCHANGED <<current_song_index, is_playing, is_shuffling, loaded, songs>>]_vars

\* C16: when a shuffle command has turned shuffle on and the next step is a
\* shuffle command that turns it off, the list after it is, element by
\* element, the list as it was before shuffle was turned on.
C16_ShuffleOnOffRestores ==
    [][(ToggleShuffle /\ is_shuffling /\ output = "Shuffle turned on.") =>
          songs' = shuffled_from]_vars

\* C17: play sets is_playing when it is false, and otherwise prints that a
\* song is playing and changes nothing; pause clears is_playing when it is
\* true, and otherwise prints that no song is playing and changes nothing;
\* neither changes current_song_index, is_shuffling or the list.
C17_PlayPauseUnderPrecondition ==
    [][/\ Play =>
             /\ IF ~is_playing
                THEN is_playing'
                ELSE /\ output' = "Error: Song is currently playing."
                     /\ UNCHANGED <<is_playing, music, loaded>>
             /\ UNCHANGED <<current_song_index, is_shuffling, songs>>
       /\ Pause =>
             /\ IF is_playing
                THEN ~is_playing'
                ELSE /\ output' = "Error: No song is currently playing."
                     /\ UNCHANGED <<is_playing, music, loaded>>
             /\ UNCHANGED <<current_song_index, is_shuffling, songs>>]_vars

\* C17, its case: play was called while a loaded track was playing, and was
\* refused.
C17_Witness ==
    /\ is_playing
    /\ music = "playing"
    /\ output = "Error: Song is currently playing."

\* C18: an end-of-track event taken by the event thread takes one event from
\* the queue and makes one call that does what the next command does from
\* the same state: on an empty list it prints that no songs are available,
\* otherwise it computes an index among the targets of next (one step forward
\* with wraparound, or under shuffle any index of the list, the current one
\* included); and so does the next command of the command loop.
C18_AutoAdvanceIsNext ==
    [][LET targets == IF is_shuffling THEN 0 .. Len(songs) - 1
                      ELSE {(current_song_index + 1) % Len(songs)}
       IN  /\ HandleEvent =>
                 /\ end_events' = end_events - 1
                 /\ IF songs = <<>>
                    THEN pc'["evt"] = "idle" /\ output' = "No songs available."
                    ELSE /\ pc'["evt"] = "store" /\ op'["evt"] = "next"
                         /\ new_index'["evt"] \in targets
           /\ (Navigate /\ op'["cmd"] = "next") =>
                 /\ pc'["cmd"] = "store"
                 /\ new_index'["cmd"] \in targets]_vars

\* C18, its case: under shuffle, on a list of at least two titles, the event
\* thread has drawn the current index again.
C18_Witness ==
    /\ pc["evt"] = "store" /\ op["evt"] = "next"
    /\ is_shuffling /\ Len(songs) >= 2
    /\ new_index["evt"] = current_song_index

\* C19: whenever a track has been loaded, the list is not empty and no call
\* is under way, the title the current command prints,
\* songs[current_song_index], is the title of the track loaded last.
C19_CurrentIsLoaded ==
    (loaded # NoTrack /\ songs # <<>> /\ \A t \in Threads : pc[t] = "idle") =>
        /\ current_song_index < Len(songs)
        /\ songs[current_song_index + 1] = loaded

\* C20: is_playing is true only when a track has been loaded into the mixer.
C20_PlayingImpliesLoaded == is_playing => loaded # NoTrack

(***************************************************************************)
(* The search command's properties.                                        *)
(***************************************************************************)
\* C11: when the search command staged nothing (no locator was found, or the
\* fetch failed), the error is caught: after fix the command loop is back at
\* its prompt, and the songs folder is as it was.
C11_SearchFailureIsNotFatal ==
    [][(SearchFix /\ temp_folder = {}) =>
          (pc'["cmd"] = "idle" /\ songs_folder' = songs_folder)]_vars

\* C12: when the search command has just promoted a track, a next or previous
\* command given right after it does not report an empty list, and the list
\* it steps through holds every title of the songs folder, the promoted one
\* included.
C12_PromotedTrackIsPlayable ==
    [][(output = "Downloaded" /\ Navigate) =>
          /\ output' # "No songs available."
          /\ \A title \in Range(get_song_list) : title \in Range(songs)]_vars

====
